---------------------------- MODULE Spec2Model ----------------------------
(***************************************************************************)
(* A model of the reactive engine of src/src/signal.ts: mutable cells      *)
(* (Signal), derived cells (DerivedSignal) and synchronous effects.        *)
(*                                                                         *)
(* The engine is single-threaded and recursive: a write replays the        *)
(* subscribers, each of which may write again.  The call stack of the      *)
(* JavaScript program is the variable `stack`; every step of the model is  *)
(* one piece of straight-line code of signal.ts (a getter, the setter up   *)
(* to its loop, one loop iteration, a finally block, ...).                 *)
(*                                                                         *)
(* Calls alternate on the stack: a setter's round calls an effect wrapper, *)
(* whose body calls a setter.  An activation is one round together with    *)
(* the wrapper call it is waiting for (the effect created at the top level *)
(* has no round around it).  A runaway cycle nests a thousand times the    *)
(* same few activations, so the stack is kept run-length encoded: a        *)
(* sequence of runs [a |-> block of activations, n |-> how many of it].    *)
(*                                                                         *)
(* The user program is the input.  Its effect bodies and compute functions *)
(* are small instruction lists (Body); its top-level statements are either *)
(* a fixed script (the programs of the test file and of the README) or,    *)
(* after a prelude that constructs the cells, any MaxOps statements drawn  *)
(* from Alphabet.                                                          *)
(***************************************************************************)
EXTENDS Integers, Sequences, FiniteSets, TLC

VARIABLES
    value,          \* Signal._value, per cell
    version,        \* Signal._version, per cell
    effects,        \* Signal._effects, per cell: a Set in insertion order
    updateCount,    \* Signal._updateCount, per cell
    made,           \* the cells constructed so far
    fns,            \* the effects created so far: effect id -> name of its body
    currentEffect,  \* __currentEffect (Null or an effect id)
    stack,          \* the call stack: effectFn invocations and setter rounds
    thrown,         \* the Error propagating (stack non-empty) or delivered to the top level
    log,            \* what the user program's effects logged
    script,         \* the scripted top-level statements of the user program
    hist,           \* the top-level statements executed so far
    ev,             \* the step just taken (history variable)
    result,         \* what the last effect() call of the top level returned
    accepted,       \* per cell, the number of writes of a value other than the stored one (history variable)
    tripped,        \* the cells a write to which has failed with RunawayUpdate (history variable)
    invoked,        \* per effect, the number of calls of its wrapper (history variable)
    basis,          \* per cell, the version the derived cell's latest recompute read, or Undefined (history variable)
    kept,           \* the pairs <<e, c>>: the first run of effect e failed after reading c (history variable)
    failedSince     \* an Error has been raised since the derived cell was constructed (history variable)

vars == <<value, version, effects, updateCount, made, fns, currentEffect,
          stack, thrown, log, script, hist, ev, result, accepted, tripped,
          invoked, basis, kept, failedSince>>

----------------------------------------------------------------------------
(* Program constants *)

UPDATE_COUNT_LIMIT == 1000

Null == 0

Undefined == -1

(* Bounds of the model *)

MaxOps == 3

(* the capacity of the JavaScript call stack, in activations *)
MaxStack == 3100

MaxVal == 1

Vals == 0..MaxVal

MutCells == {"a", "b", "c"}

DerivedCells == {"d"}

Cells == MutCells \cup DerivedCells

NoError == "none"

(* what a body without a return statement returns: the results of a body
   are tuples, <<"clear", k>> being the function made by the run that read k *)
NoResult == <<"undefined">>

----------------------------------------------------------------------------
(* The user program: effect bodies and compute functions.                  *)
(* An instruction works on the invocation's accumulator `acc` and its      *)
(* list of values to log `out`:                                            *)
(*   <<"get", c>>     acc = c.value                                        *)
(*   <<"getadd", c>>  acc = acc + c.value                                  *)
(*   <<"const", k>>   acc = k                                              *)
(*   <<"inc">>        acc = acc + 1                                        *)
(*   <<"set", c>>     c.value = acc                                        *)
(*   <<"put", c, k>>  c.value = k                                          *)
(*   <<"bump", c>>    c.value += 1                                         *)
(*   <<"ifz", n>>     if (acc) { the next n instructions }                 *)
(*   <<"if", c, n>>   if (c.value) { the next n instructions }             *)
(*   <<"setinc", c, y>>  c.value = y.value + 1                             *)
(*   <<"meta", c>>    acc = c.meta.value                                   *)
(*   <<"ret">>        return () => (log = [])                              *)
(*   <<"push">>       remember acc for the log line                        *)
(*   <<"log">>        log.push(the remembered values)                      *)
(*   <<"state", c>>   c = state(0)                                         *)
(*   <<"derived", d, f>>  d = derived(f)                                   *)
(*   <<"effect", f>>  effect(f)                                            *)
(*   <<"raw", d>>     d._value = acc (the derived cell's own effect)       *)

Body(name) ==
    CASE name = "logaa"    -> << <<"get", "a">>, <<"getadd", "a">>, <<"push">>, <<"log">> >>
      [] name = "loga"     -> << <<"get", "a">>, <<"push">>, <<"log">> >>
      [] name = "logsum"   -> << <<"get", "a">>, <<"push">>, <<"get", "b">>, <<"push">>,
                                 <<"get", "d">>, <<"push">>, <<"log">> >>
      [] name = "copy"     -> << <<"get", "a">>, <<"set", "b">> >>
      [] name = "echo"     -> << <<"get", "a">>, <<"set", "b">>, <<"get", "b">>, <<"push">>,
                                 <<"log">> >>
      [] name = "peek"     -> << <<"get", "b">>, <<"ifz", 3>>, <<"get", "a">>, <<"push">>, <<"log">> >>
      [] name = "settle"   -> << <<"get", "a">>, <<"ifz", 1>>, <<"put", "a", 0>> >>
      [] name = "mkstate"  -> << <<"get", "a">>, <<"ifz", 1>>, <<"state", "c">> >>
      [] name = "mkstate0" -> << <<"state", "c">> >>
      [] name = "mkderived" -> << <<"get", "a">>, <<"ifz", 1>>, <<"derived", "d", "bar">> >>
      [] name = "mkderived0" -> << <<"derived", "d", "bar">> >>
      [] name = "mkeffect" -> << <<"get", "a">>, <<"push">>, <<"get", "b">>, <<"push">>,
                                 <<"log">>, <<"effect", "loga">> >>
      [] name = "mkeffect1" -> << <<"get", "a">>, <<"ifz", 1>>, <<"effect", "loga">> >>
      [] name = "setd"     -> << <<"get", "a">>, <<"ifz", 2>>, <<"get", "d">>, <<"set", "d">> >>
      [] name = "spin"     -> << <<"get", "b">>, <<"ifz", 1>>, <<"bump", "a">> >>
      [] name = "ca"       -> << <<"if", "c", 1>>, <<"setinc", "a", "b">> >>
      [] name = "cb"       -> << <<"if", "c", 1>>, <<"setinc", "b", "c">> >>
      [] name = "cc"       -> << <<"if", "c", 1>>, <<"setinc", "c", "a">> >>
      [] name = "flip"     -> << <<"if", "c", 2>>, <<"put", "c", 0>>, <<"put", "c", 1>> >>
      [] name = "logret"   -> << <<"get", "a">>, <<"push">>, <<"log">>, <<"ret">> >>
      [] name = "metaa"    -> << <<"meta", "a">>, <<"push">>, <<"log">>, <<"get", "b">> >>
      [] name = "sum"      -> << <<"get", "a">>, <<"getadd", "b">>, <<"raw", "d">> >>
      [] name = "dbl"      -> << <<"get", "a">>, <<"getadd", "a">>, <<"raw", "d">> >>
      [] name = "cond"     -> << <<"get", "a">>, <<"ifz", 1>>, <<"get", "b">>, <<"raw", "d">> >>
      [] name = "bar"      -> << <<"const", 7>>, <<"raw", "d">> >>
      [] name = "mkbar"    -> << <<"state", "c">>, <<"raw", "d">> >>

BodyNames == {"logaa", "loga", "logsum", "copy", "echo", "peek", "settle", "mkstate", "mkstate0",
              "mkderived", "mkderived0", "mkeffect", "mkeffect1", "setd", "spin",
              "ca", "cb", "cc", "flip", "logret", "metaa"}

ComputeNames == {"sum", "bar", "mkbar", "dbl", "cond"}

(* the compute functions as the user program writes them *)
Compute(name) ==
    CASE name = "sum"  -> value["a"] + value["b"]
      [] name = "bar"  -> 7
      [] name = "dbl"  -> value["a"] + value["a"]
      [] name = "cond" -> IF value["a"] # 0 THEN value["b"] ELSE 0

(* The cells a body names: the body can be written once they are declared. *)
CellsOf(name) ==
    {Body(name)[i][2] : i \in {j \in 1..Len(Body(name)) :
          Body(name)[j][1] \in {"get", "getadd", "set", "put", "bump", "if", "setinc",
                                "meta"}}}
    \cup {Body(name)[i][3] : i \in {j \in 1..Len(Body(name)) : Body(name)[j][1] = "setinc"}}

----------------------------------------------------------------------------
(* The top-level statements of the user program:                           *)
(*   <<"state", c, v>>    c = state(v)                                     *)
(*   <<"derived", d, f>>  d = derived(f)                                   *)
(*   <<"effect", f>>      effect(f)                                        *)
(*   <<"set", c, v>>      c.value = v                                      *)
(*   <<"get", c>>         c.value                                          *)
(*   <<"meta", c>>        c.meta                                           *)
(*   <<"call">>           destroy(), where destroy = effect(f)             *)

Prelude == << <<"state", "a", 0>>, <<"state", "b", 0>> >>

(* test "signal" (Scenario A) *)
ScriptSignal ==
    << <<"state", "a", 0>>, <<"effect", "logaa">>, <<"set", "a", 1>> >>

(* test "derived" and the README's usage (Scenario B) *)
ScriptDerived ==
    << <<"state", "a", 0>>, <<"state", "b", 0>>, <<"derived", "d", "sum">>,
       <<"effect", "logsum">>, <<"set", "a", 1>>, <<"set", "b", 2>>,
       <<"set", "d", 123>> >>

(* test "new signal inside an effect is forbidden" *)
ScriptForbidden ==
    << <<"effect", "mkstate0">>, <<"derived", "d", "mkbar">> >>

(* the cycle of test "circular update inside one effect throws", on one cell
   and switched by another: b = 1 starts it, and once it has failed a is
   written again with b = 0 *)
ScriptSpin ==
    << <<"state", "a", 0>>, <<"state", "b", 0>>, <<"effect", "spin">>,
       <<"set", "b", 1>>, <<"set", "b", 0>>, <<"set", "a", 0>> >>

(* an effect that reads a only once b is set, behind two subscribers of a
   of which the second sets b *)
ScriptLate ==
    << <<"state", "a", 0>>, <<"state", "b", 0>>, <<"effect", "loga">>,
       <<"effect", "copy">>, <<"effect", "peek">>, <<"set", "a", 1>> >>

(* test "circular update across multiple effects throws" (Scenario C) *)
ScriptCycle ==
    << <<"state", "a", 0>>, <<"state", "b", 0>>, <<"state", "c", 0>>,
       <<"effect", "ca">>, <<"effect", "cb">>, <<"effect", "cc">>, <<"set", "c", 1>> >>

(* test "effect return result" *)
ScriptReturn ==
    << <<"state", "a", 0>>, <<"effect", "logret">>, <<"set", "a", 1>>,
       <<"set", "a", 2>>, <<"call">> >>

(* a derived cell of a alone, constructed after an effect that copies a to
   b and before an effect that reads a, b and the derived cell *)
ScriptGlitch ==
    << <<"state", "a", 0>>, <<"state", "b", 0>>, <<"effect", "copy">>,
       <<"derived", "d", "dbl">>, <<"effect", "logsum">>, <<"set", "a", 1>> >>

(* a derived cell that reads b only once a is set, constructed before an
   effect that reads a, b and the derived cell *)
ScriptCond ==
    << <<"state", "a", 0>>, <<"state", "b", 0>>, <<"derived", "d", "cond">>,
       <<"effect", "logsum">>, <<"set", "a", 1>>, <<"set", "b", 1>> >>

(* a derived cell of a behind a subscriber of a that fails once a is set *)
ScriptStale ==
    << <<"state", "a", 0>>, <<"state", "b", 0>>, <<"effect", "mkstate">>,
       <<"derived", "d", "dbl">>, <<"set", "a", 1>>, <<"set", "b", 1>> >>

(* an effect that writes its own cell twice in one run *)
ScriptFlip ==
    << <<"state", "c", 0>>, <<"effect", "flip">>, <<"set", "c", 1>> >>

(* the cycle of ScriptSpin already switched on when the effect is created *)
ScriptFirstFail ==
    << <<"state", "a", 0>>, <<"state", "b", 0>>, <<"set", "b", 1>>,
       <<"effect", "spin">>, <<"set", "b", 0>> >>

(* reads of value and of meta, inside an effect and at the top level *)
ScriptMeta ==
    << <<"state", "a", 0>>, <<"state", "b", 0>>, <<"effect", "metaa">>,
       <<"set", "a", 1>>, <<"get", "a">>, <<"meta", "a">>, <<"set", "b", 1>> >>

Scripts == {ScriptSignal, ScriptDerived, ScriptForbidden, ScriptSpin, ScriptLate,
            ScriptCycle, ScriptReturn, ScriptGlitch, ScriptCond, ScriptStale,
            ScriptFlip, ScriptFirstFail, ScriptMeta}

(* After the prelude any MaxOps statements of Alphabet follow. *)
Alphabet ==
    {<<"state", "c", 0>>}
    \cup {<<"derived", "d", f>> : f \in {"sum", "bar"}}
    \cup {<<"effect", f>> : f \in {"logaa", "loga", "logsum", "copy", "echo", "peek",
                                    "settle", "mkstate", "mkstate0", "mkderived",
                                    "mkderived0", "mkeffect", "mkeffect1", "setd"}}
    \cup {<<"set", c, v>> : c \in {"a", "b"}, v \in Vals}
    \cup {<<"set", "d", 0>>}

AllowedOps ==
    IF Len(hist) < Len(script) THEN {script[Len(hist) + 1]}
    ELSE IF script = Prelude /\ Len(hist) < Len(script) + MaxOps THEN Alphabet
    ELSE {}

----------------------------------------------------------------------------
(* The pieces of signal.ts *)

Range(s) == {s[i] : i \in 1..Len(s)}

(* the equality test left out *)
StrictEqualNever(x, y) == FALSE

(* line 114: this._value === newValue *)
StrictEqual(x, y) == x = y

(* the increment left out *)
NextVersionSame(ver) == ver

(* line 120: this._version++ *)
NextVersion(ver) == ver + 1

(* the counter compared and not incremented: this._updateCount > limit *)
NextCountSame(count) == count

(* line 127: this._updateCount++ *)
NextCount(count) == count + 1

(* the incremented counter compared: ++this._updateCount > limit *)
GuardTripsIncremented(count) == count + 1 > UPDATE_COUNT_LIMIT

(* line 127: this._updateCount++ > Signal.UPDATE_COUNT_LIMIT, where count is
   the counter before the increment *)
GuardTrips(count) == count > UPDATE_COUNT_LIMIT

(* line 124: Array.from(this._effects) *)
Snapshot(subs) == subs

(* the getter that registers nobody *)
AddSubscriberNever(subs, e) == subs

(* a list instead of a Set, and no membership test *)
AddSubscriberAgain(subs, e) ==
    IF e # Null THEN Append(subs, e) ELSE subs

(* lines 97-102: the getter's subscription of the running effect *)
AddSubscriber(subs, e) ==
    IF e # Null /\ e \notin Range(subs) THEN Append(subs, e) ELSE subs

(* the slot cleared instead of restored *)
RestoreEffectNull(prev) == Null

(* line 256: the effect wrapper's finally *)
RestoreEffect(prev) == prev

(* the reset left out *)
ResetCountKept(count) == count

(* line 142: the setter's finally *)
ResetCount(count) == 0

(* line 63: if (__currentEffect) in the Signal constructor *)
SignalGuard == currentEffect # Null

(* the check left out *)
EffectGuardOff == FALSE

(* line 214: if (__currentEffect) in effect() *)
EffectGuard == currentEffect # Null

(* the loop run over this._effects itself, which grows during the round *)
SubscribersLive(r) == effects[r.c]

(* line 135: the loop runs over the snapshot taken by round r *)
Subscribers(r) == r.effects

(* no round: the activation of an effect called by effect() itself *)
NoRound == [c |-> "-", effects |-> <<>>, i |-> 0, ran |-> <<>>, at |-> <<>>]

(* no wrapper call: the round is between two iterations of its loop *)
NoCall == [e |-> Null, pc |-> 0, acc |-> 0, out |-> <<>>, prev |-> Null,
           read |-> {}, res |-> NoResult]

(* a call of the wrapper effectFn of effect e: prev is its prevEffect and
   res its result; `read` is the set of cells the body has read so far
   (history field) *)
Call(e, prev) == [e |-> e, pc |-> 1, acc |-> 0, out |-> <<>>, prev |-> prev,
                  read |-> {}, res |-> NoResult]

(* the setter's loop over its snapshot; `at` is the subscriber list at the
   moment of the write and `ran` the effects the round has invoked
   (history fields) *)
Round(c, snap, subs) == [c |-> c, effects |-> snap, i |-> 1, ran |-> <<>>, at |-> subs]

Activation(r, f) == [r |-> r, f |-> f]

(* The run-length encoded stack: a run is a block of activations (bottom
   first) and the number of times the block is repeated. *)
Single(a) == [a |-> <<a>>, n |-> 1]

IsSingle(r) == r.n = 1 /\ Len(r.a) = 1

(* the longest cycle of activations the encoding looks for *)
MaxPeriod == Cardinality(MutCells)

(* the top p runs of stk are single activations *)
TopSingles(stk, p) ==
    /\ Len(stk) >= p
    /\ \A i \in (Len(stk) - p + 1)..Len(stk) : IsSingle(stk[i])

(* the block made of the p single activations that end at run k *)
BlockAt(stk, k, p) == [i \in 1..p |-> stk[k - p + i].a[1]]

(* the top p single activations repeat the block of the run beneath them *)
Repeats(stk, p) ==
    /\ TopSingles(stk, p)
    /\ Len(stk) > p
    /\ stk[Len(stk) - p].a = BlockAt(stk, Len(stk), p)

(* the top 2p single activations are twice the same block *)
Doubles(stk, p) ==
    /\ TopSingles(stk, 2 * p)
    /\ BlockAt(stk, Len(stk), p) = BlockAt(stk, Len(stk) - p, p)

RECURSIVE Fold(_, _)
Fold(stk, p) ==
    IF p > MaxPeriod THEN stk
    ELSE IF Repeats(stk, p)
         THEN [SubSeq(stk, 1, Len(stk) - p) EXCEPT ![Len(stk) - p].n = @ + 1]
    ELSE IF Doubles(stk, p)
         THEN Append(SubSeq(stk, 1, Len(stk) - 2 * p),
                     [a |-> BlockAt(stk, Len(stk), p), n |-> 2])
    ELSE Fold(stk, p + 1)

(* a call: the callee's activation on top of the caller's stack *)
Push(stk, a) == Fold(Append(stk, Single(a)), 1)

(* a return: the stack without its top activation *)
Pop(stk) ==
    LET r == stk[Len(stk)]
        rest == IF r.n > 1 THEN [stk EXCEPT ![Len(stk)].n = @ - 1]
                ELSE SubSeq(stk, 1, Len(stk) - 1)
    IN  rest \o [i \in 1..(Len(r.a) - 1) |-> Single(r.a[i])]

RECURSIVE DepthTo(_, _)
DepthTo(stk, k) ==
    IF k = 0 THEN 0 ELSE stk[k].n * Len(stk[k].a) + DepthTo(stk, k - 1)

(* the number of activations on the stack *)
Depth(stk) == DepthTo(stk, Len(stk))

Ev(op, c, e, how) == [op |-> op, c |-> c, e |-> e, how |-> how]

(* throw new Error(...): the callers are unwound one call per step *)
Throw(err, stk) ==
    /\ thrown' = err
    /\ stack' = stk
    /\ failedSince' = TRUE

----------------------------------------------------------------------------
(* Signal: constructor and setter; DerivedSignal; effect() *)

(* new Signal(initialValue), lines 58-69 *)
SignalNew(c, v, stk) ==
    IF SignalGuard
    THEN /\ Throw("SignalInEffect", stk)
         /\ ev' = Ev("new", c, currentEffect, "threw")
         /\ UNCHANGED <<value, version, effects, updateCount, made, fns,
                        currentEffect, log, accepted, tripped, result, invoked,
                        basis, kept>>
    ELSE /\ value' = [value EXCEPT ![c] = v]
         /\ version' = [version EXCEPT ![c] = 0]
         /\ effects' = [effects EXCEPT ![c] = <<>>]
         /\ updateCount' = [updateCount EXCEPT ![c] = 0]
         /\ accepted' = [accepted EXCEPT ![c] = 0]
         /\ made' = made \cup {c}
         /\ stack' = stk
         /\ thrown' = NoError
         /\ ev' = Ev("new", c, currentEffect, "made")
         /\ UNCHANGED <<fns, currentEffect, log, tripped, result, invoked, basis,
                        kept, failedSince>>

(* the record of a write: the cell, the value stored before, the value
   written, the effect that wrote (Null at the top level) and the outcome *)
SetEv(c, v, how) ==
    [op |-> "set", c |-> c, e |-> currentEffect, how |-> how, v |-> v, old |-> value[c]]

(* the setter with the guard moved before the assignment: a write that
   fails stores nothing *)
SignalSetGuardFirst(c, v, subs, stk) ==
    /\ accepted' = [accepted EXCEPT ![c] = IF value[c] # v THEN @ + 1 ELSE @]
    /\ UNCHANGED <<result, invoked, basis, kept>>
    /\ IF StrictEqual(value[c], v)
       THEN /\ stack' = stk
            /\ thrown' = NoError
            /\ ev' = SetEv(c, v, "noop")
            /\ UNCHANGED <<value, version, updateCount, made, fns,
                           currentEffect, log, tripped, failedSince>>
       ELSE /\ updateCount' = [updateCount EXCEPT ![c] = NextCount(@)]
            /\ IF GuardTrips(updateCount[c])
               THEN /\ Throw("RunawayUpdate", stk)
                    /\ tripped' = tripped \cup {c}
                    /\ ev' = SetEv(c, v, "runaway")
                    /\ UNCHANGED <<value, version>>
               ELSE /\ value' = [value EXCEPT ![c] = v]
                    /\ version' = [version EXCEPT ![c] = NextVersion(@)]
                    /\ stack' = Push(stk, Activation(Round(c, Snapshot(subs), subs), NoCall))
                    /\ thrown' = NoError
                    /\ tripped' = tripped
                    /\ failedSince' = failedSince
                    /\ ev' = SetEv(c, v, "round")
            /\ UNCHANGED <<made, fns, currentEffect, log>>

(* set value(newValue), lines 112-132: up to the entry of the try block.
   subs is this._effects at the call. *)
SignalSet(c, v, subs, stk) ==
    /\ accepted' = [accepted EXCEPT ![c] = IF value[c] # v THEN @ + 1 ELSE @]
    /\ UNCHANGED <<result, invoked, basis, kept>>
    /\ IF StrictEqual(value[c], v)
       THEN /\ stack' = stk
            /\ thrown' = NoError
            /\ ev' = SetEv(c, v, "noop")
            /\ UNCHANGED <<value, version, updateCount, made, fns,
                           currentEffect, log, tripped, failedSince>>
       ELSE /\ value' = [value EXCEPT ![c] = v]
            /\ version' = [version EXCEPT ![c] = NextVersion(@)]
            /\ updateCount' = [updateCount EXCEPT ![c] = NextCount(@)]
            /\ IF GuardTrips(updateCount[c])
               THEN /\ Throw("RunawayUpdate", stk)
                    /\ tripped' = tripped \cup {c}
                    /\ ev' = SetEv(c, v, "runaway")
               ELSE /\ stack' = Push(stk, Activation(Round(c, Snapshot(subs), subs), NoCall))
                    /\ thrown' = NoError
                    /\ tripped' = tripped
                    /\ failedSince' = failedSince
                    /\ ev' = SetEv(c, v, "round")
            /\ UNCHANGED <<made, fns, currentEffect, log>>

(* DerivedSignal's set value(val), lines 185-187 *)
DerivedSet(c, v, stk) ==
    /\ Throw("DerivedWrite", stk)
    /\ ev' = SetEv(c, v, "threw")
    /\ UNCHANGED <<value, version, updateCount, made, fns,
                   currentEffect, log, accepted, tripped, result, invoked, basis,
                   kept>>

(* the override left out: the inherited setter runs *)
SetValueInherited(c, v, subs, stk) == SignalSet(c, v, subs, stk)

(* c.value = v on whichever class c is: DerivedSignal overrides the setter *)
SetValue(c, v, subs, stk) ==
    IF c \in DerivedCells THEN DerivedSet(c, v, stk) ELSE SignalSet(c, v, subs, stk)

(* effect(fn), lines 209-244 and 270: the check, the wrapper, and the
   wrapper's first call up to the entry of its try block *)
EffectNew(f, stk) ==
    IF EffectGuard
    THEN /\ Throw("NestedEffect", stk)
         /\ ev' = Ev("effect", "-", currentEffect, "threw")
         /\ UNCHANGED <<value, version, effects, updateCount, made, fns,
                        currentEffect, log, accepted, tripped, result, invoked,
                        basis, kept>>
    ELSE /\ fns' = Append(fns, f)
         /\ currentEffect' = Len(fns) + 1
         /\ stack' = Push(stk, Activation(NoRound, Call(Len(fns) + 1, currentEffect)))
         /\ thrown' = NoError
         /\ ev' = Ev("effect", "-", Len(fns) + 1, "made")
         /\ invoked' = Append(invoked, 1)
         /\ UNCHANGED <<value, version, effects, updateCount, made, log, accepted,
                        tripped, result, basis, kept, failedSince>>

(* new DerivedSignal(computeFn), lines 172-183: super(), then effect() *)
DerivedNew(d, f, stk) ==
    IF SignalGuard
    THEN /\ Throw("SignalInEffect", stk)
         /\ ev' = Ev("derived", d, currentEffect, "threw")
         /\ UNCHANGED <<value, version, effects, updateCount, made, fns,
                        currentEffect, log, accepted, tripped, result, invoked,
                        basis, kept>>
    ELSE /\ value' = [value EXCEPT ![d] = Undefined]
         /\ version' = [version EXCEPT ![d] = 0]
         /\ effects' = [effects EXCEPT ![d] = <<>>]
         /\ updateCount' = [updateCount EXCEPT ![d] = 0]
         /\ accepted' = [accepted EXCEPT ![d] = 0]
         /\ made' = made \cup {d}
         /\ basis' = [c \in Cells |-> Undefined]
         /\ UNCHANGED <<log, tripped, result, kept>>
         /\ IF EffectGuard
            THEN /\ Throw("NestedEffect", stk)
                 /\ ev' = Ev("derived", d, currentEffect, "threw")
                 /\ UNCHANGED <<fns, currentEffect, invoked>>
            ELSE /\ fns' = Append(fns, f)
                 /\ currentEffect' = Len(fns) + 1
                 /\ stack' = Push(stk, Activation(NoRound, Call(Len(fns) + 1, currentEffect)))
                 /\ thrown' = NoError
                 /\ invoked' = Append(invoked, 1)
                 /\ failedSince' = FALSE
                 /\ ev' = Ev("derived", d, Len(fns) + 1, "made")

----------------------------------------------------------------------------
(* The top-level statements *)

Init ==
    /\ value = [c \in Cells |-> Undefined]
    /\ version = [c \in Cells |-> 0]
    /\ effects = [c \in Cells |-> <<>>]
    /\ updateCount = [c \in Cells |-> 0]
    /\ accepted = [c \in Cells |-> 0]
    /\ made = {}
    /\ fns = <<>>
    /\ currentEffect = Null
    /\ stack = <<>>
    /\ thrown = NoError
    /\ log = <<>>
    /\ script \in Scripts \cup {Prelude}
    /\ hist = <<>>
    /\ tripped = {}
    /\ result = NoResult
    /\ invoked = <<>>
    /\ basis = [c \in Cells |-> Undefined]
    /\ kept = {}
    /\ failedSince = FALSE
    /\ ev = Ev("init", "-", Null, "-")

(* c = state(v) *)
CallState ==
    \E op \in AllowedOps :
        /\ stack = <<>>
        /\ op[1] = "state"
        /\ op[2] \notin made
        /\ hist' = Append(hist, op)
        /\ SignalNew(op[2], op[3], <<>>)
        /\ UNCHANGED script

(* d = derived(f) *)
CallDerived ==
    \E op \in AllowedOps :
        /\ stack = <<>>
        /\ op[1] = "derived"
        /\ op[2] \notin made
        /\ CellsOf(op[3]) \subseteq made
        /\ hist' = Append(hist, op)
        /\ DerivedNew(op[2], op[3], <<>>)
        /\ UNCHANGED script

(* effect(f) *)
CallEffect ==
    \E op \in AllowedOps :
        /\ stack = <<>>
        /\ op[1] = "effect"
        /\ CellsOf(op[2]) \subseteq made
        /\ hist' = Append(hist, op)
        /\ EffectNew(op[2], <<>>)
        /\ UNCHANGED script

(* c.value = v *)
CallSet ==
    \E op \in AllowedOps :
        /\ stack = <<>>
        /\ op[1] = "set"
        /\ op[2] \in made
        /\ hist' = Append(hist, op)
        /\ SetValue(op[2], op[3], effects[op[2]], <<>>)
        /\ UNCHANGED <<script, effects>>

(* c.value read at the top level: get value(), lines 91-106 *)
CallGet ==
    \E op \in AllowedOps :
        /\ stack = <<>>
        /\ op[1] = "get"
        /\ op[2] \in made
        /\ hist' = Append(hist, op)
        /\ effects' = [effects EXCEPT ![op[2]] = AddSubscriber(@, currentEffect)]
        /\ thrown' = NoError
        /\ ev' = Ev("get", op[2], currentEffect, "-")
        /\ UNCHANGED <<value, version, updateCount, made, fns, currentEffect, stack,
                       log, script, result, accepted, tripped, invoked, basis, kept,
                       failedSince>>

(* c.meta read at the top level: get meta(), lines 155-162 *)
CallMeta ==
    \E op \in AllowedOps :
        /\ stack = <<>>
        /\ op[1] = "meta"
        /\ op[2] \in made
        /\ hist' = Append(hist, op)
        /\ thrown' = NoError
        /\ ev' = Ev("meta", op[2], currentEffect, "-")
        /\ UNCHANGED <<value, version, effects, updateCount, made, fns, currentEffect,
                       stack, log, script, result, accepted, tripped, invoked, basis,
                       kept, failedSince>>

(* destroy(): the top level calls the function that effect() returned, which
   in test "effect return result" empties the log *)
CallResult ==
    \E op \in AllowedOps :
        /\ stack = <<>>
        /\ op[1] = "call"
        /\ result # NoResult
        /\ hist' = Append(hist, op)
        /\ log' = <<>>
        /\ thrown' = NoError
        /\ ev' = Ev("call", "-", currentEffect, "-")
        /\ UNCHANGED <<value, version, effects, updateCount, made, fns, currentEffect,
                       stack, script, result, accepted, tripped, invoked, basis, kept,
                       failedSince>>

----------------------------------------------------------------------------
(* The body of a running effect, one instruction per step *)

Top == stack[Len(stack)].a[Len(stack[Len(stack)].a)]

Code == Body(fns[Top.f.e])

Ins == Code[Top.f.pc]

Running ==
    /\ stack # <<>>
    /\ thrown = NoError
    /\ Top.f # NoCall
    /\ Top.f.pc <= Len(Code)

(* the stack with the running call changed to f *)
With(f) == Push(Pop(stack), [Top EXCEPT !.f = f])

(* the caller's stack once the current instruction has returned *)
Cont(acc) == With([Top.f EXCEPT !.pc = @ + 1, !.acc = acc])

(* the same after an instruction that read cell c *)
ContRead(acc, c) == With([Top.f EXCEPT !.pc = @ + 1, !.acc = acc, !.read = @ \cup {c}])

(* JavaScript's ToBoolean on the values of the model *)
Truthy(x) == x # 0 /\ x # Undefined

(* get value(), lines 91-106, read by the running effect *)
ExecGet ==
    /\ Running
    /\ Ins[1] \in {"get", "getadd", "if"}
    /\ effects' = [effects EXCEPT ![Ins[2]] = AddSubscriber(@, currentEffect)]
    /\ stack' =
          CASE Ins[1] = "get"    -> ContRead(value[Ins[2]], Ins[2])
            [] Ins[1] = "getadd" -> ContRead(Top.f.acc + value[Ins[2]], Ins[2])
            [] Ins[1] = "if"     ->
                 With([Top.f EXCEPT !.pc = IF Truthy(value[Ins[2]]) THEN @ + 1
                                            ELSE @ + 1 + Ins[3],
                                    !.read = @ \cup {Ins[2]}])
    /\ basis' = IF fns[currentEffect] \in ComputeNames
                THEN [basis EXCEPT ![Ins[2]] = version[Ins[2]]]
                ELSE basis
    /\ ev' = Ev("get", Ins[2], currentEffect, "-")
    /\ UNCHANGED <<value, version, updateCount, made, fns, currentEffect, thrown,
                   log, script, hist, result, accepted, tripped, invoked, kept,
                   failedSince>>

(* meta built with this.value, the getter, instead of this._value *)
ExecMetaByGetter ==
    /\ Running
    /\ Ins[1] = "meta"
    /\ effects' = [effects EXCEPT ![Ins[2]] = AddSubscriber(@, currentEffect)]
    /\ stack' = Cont(value[Ins[2]])
    /\ ev' = Ev("meta", Ins[2], currentEffect, "-")
    /\ UNCHANGED <<value, version, updateCount, made, fns, currentEffect,
                   thrown, log, script, hist, result, accepted, tripped, invoked,
                   basis, kept, failedSince>>

(* get meta(), lines 155-162, read by the running effect: meta.value *)
ExecMeta ==
    /\ Running
    /\ Ins[1] = "meta"
    /\ stack' = Cont(value[Ins[2]])
    /\ ev' = Ev("meta", Ins[2], currentEffect, "-")
    /\ UNCHANGED <<value, version, effects, updateCount, made, fns, currentEffect,
                   thrown, log, script, hist, result, accepted, tripped, invoked,
                   basis, kept, failedSince>>

(* the body's own computation: no call into the engine *)
ExecLocal ==
    /\ Running
    /\ Ins[1] \in {"const", "inc", "ifz", "push", "ret"}
    /\ stack' = With(
          CASE Ins[1] = "const" -> [Top.f EXCEPT !.pc = @ + 1, !.acc = Ins[2]]
            [] Ins[1] = "inc"   -> [Top.f EXCEPT !.pc = @ + 1, !.acc = @ + 1]
            [] Ins[1] = "ifz"   -> [Top.f EXCEPT !.pc = IF Top.f.acc = 0 THEN @ + 1 + Ins[2]
                                                        ELSE @ + 1]
            [] Ins[1] = "push"  -> [Top.f EXCEPT !.pc = @ + 1, !.out = Append(@, Top.f.acc)]
            [] Ins[1] = "ret"   -> [Top.f EXCEPT !.pc = Len(Code) + 1,
                                                 !.res = <<"clear", Top.f.acc>>])
    /\ ev' = Ev("local", "-", currentEffect, Ins[1])
    /\ UNCHANGED <<value, version, effects, updateCount, made, fns, currentEffect,
                   thrown, log, script, hist, result, accepted, tripped, invoked,
                   basis, kept, failedSince>>

(* log.push(...) *)
ExecLog ==
    /\ Running
    /\ Ins[1] = "log"
    /\ log' = Append(log, Top.f.out)
    /\ stack' = With([Top.f EXCEPT !.pc = @ + 1, !.out = <<>>])
    /\ ev' = Ev("log", "-", currentEffect, "-")
    /\ UNCHANGED <<value, version, effects, updateCount, made, fns, currentEffect,
                   thrown, script, hist, result, accepted, tripped, invoked, basis,
                   kept, failedSince>>

(* c.value = ... inside the body *)
ExecSet ==
    /\ Running
    /\ Ins[1] \in {"set", "put"}
    /\ SetValue(Ins[2], IF Ins[1] = "set" THEN Top.f.acc ELSE Ins[3], effects[Ins[2]],
                Cont(Top.f.acc))
    /\ UNCHANGED <<script, hist, effects>>

(* c.value += 1 and c.value = y.value + 1 inside the body: the getter
   (lines 91-106) of the cell read, then the setter of the cell written *)
ExecBump ==
    /\ Running
    /\ Ins[1] \in {"bump", "setinc"}
    /\ LET y == IF Ins[1] = "bump" THEN Ins[2] ELSE Ins[3] IN
        /\ effects' = [effects EXCEPT ![y] = AddSubscriber(@, currentEffect)]
        /\ SetValue(Ins[2], value[y] + 1,
                    IF y = Ins[2] THEN AddSubscriber(effects[y], currentEffect)
                    ELSE effects[Ins[2]],
                    ContRead(Top.f.acc, y))
    /\ UNCHANGED <<script, hist>>

(* state(0) inside the body *)
ExecState ==
    /\ Running
    /\ Ins[1] = "state"
    /\ SignalNew(Ins[2], 0, Cont(Top.f.acc))
    /\ UNCHANGED <<script, hist>>

(* derived(f) inside the body *)
ExecDerived ==
    /\ Running
    /\ Ins[1] = "derived"
    /\ DerivedNew(Ins[2], Ins[3], Cont(Top.f.acc))
    /\ UNCHANGED <<script, hist>>

(* effect(f) inside the body *)
ExecEffect ==
    /\ Running
    /\ Ins[1] = "effect"
    /\ EffectNew(Ins[2], Cont(Top.f.acc))
    /\ UNCHANGED <<script, hist>>

(* the recompute written as this.value = computeFn(): through the setter *)
ExecRawBySetter ==
    /\ Running
    /\ Ins[1] = "raw"
    /\ SignalSet(Ins[2], Top.f.acc, effects[Ins[2]], Cont(Top.f.acc))
    /\ UNCHANGED <<script, hist, effects>>

(* this._value = computeFn(), line 178 *)
ExecRaw ==
    /\ Running
    /\ Ins[1] = "raw"
    /\ value' = [value EXCEPT ![Ins[2]] = Top.f.acc]
    /\ stack' = Cont(Top.f.acc)
    /\ ev' = Ev("raw", Ins[2], currentEffect, "-")
    /\ UNCHANGED <<version, effects, updateCount, made, fns, currentEffect, thrown,
                   log, script, hist, result, accepted, tripped, invoked, basis,
                   kept, failedSince>>

----------------------------------------------------------------------------
(* The effect wrapper and the setter's loop *)

(* the stack once the running wrapper call has left: back in its round, or
   back in effect() *)
Left == IF Top.r = NoRound THEN Pop(stack) ELSE With(NoCall)

(* the result dropped: effectFn() called without `return` *)
ReturnOfDropped(res) == NoResult

(* lines 261 and 270: effect() hands the result of the first call back *)
ReturnOf(res) == res

(* lines 254-261: the body has returned; finally, and return: to effect(),
   which returns the result to the top level (line 270) or to the
   DerivedSignal constructor (line 175), or to the setter's loop (line 139) *)
EffectReturn ==
    /\ stack # <<>>
    /\ thrown = NoError
    /\ Top.f # NoCall
    /\ Top.f.pc > Len(Code)
    /\ currentEffect' = RestoreEffect(Top.f.prev)
    /\ stack' = Left
    /\ result' = IF Top.r = NoRound /\ hist[Len(hist)][1] = "effect"
                 THEN ReturnOf(Top.f.res)
                 ELSE result
    /\ ev' = [op |-> "return", c |-> "-", e |-> Top.f.e, how |-> "-",
              res |-> Top.f.res, read |-> Top.f.read]
    /\ UNCHANGED <<value, version, effects, updateCount, made, fns, thrown, log,
                   script, hist, accepted, tripped, invoked, basis, kept,
                   failedSince>>

(* lines 135-140 and 243-244: one iteration of the setter's loop calls the
   next effect of the snapshot, which takes the slot; the call fails with a
   RangeError when the call stack is full *)
RoundInvoke ==
    /\ stack # <<>>
    /\ thrown = NoError
    /\ Top.f = NoCall
    /\ Top.r.i <= Len(Subscribers(Top.r))
    /\ LET e == Subscribers(Top.r)[Top.r.i] IN
        IF Depth(stack) >= MaxStack
        THEN /\ Throw("RangeError", stack)
             /\ ev' = Ev("invoke", Top.r.c, e, "threw")
             /\ UNCHANGED <<currentEffect, invoked, basis>>
        ELSE /\ stack' = Push(Pop(stack),
                              Activation([Top.r EXCEPT !.i = @ + 1, !.ran = Append(@, e)],
                                         Call(e, currentEffect)))
             /\ currentEffect' = e
             /\ invoked' = [invoked EXCEPT ![e] = @ + 1]
             /\ basis' = IF fns[e] \in ComputeNames THEN [c \in Cells |-> Undefined]
                         ELSE basis
             /\ failedSince' = failedSince
             /\ thrown' = thrown
             /\ ev' = Ev("invoke", Top.r.c, e, "-")
    /\ UNCHANGED <<value, version, effects, updateCount, made, fns, log,
                   script, hist, result, accepted, tripped, kept>>

(* the reset in a catch block instead of finally: a round that completes
   leaves the counter as it is *)
RoundEndNoReset ==
    /\ stack # <<>>
    /\ thrown = NoError
    /\ Top.f = NoCall
    /\ Top.r.i > Len(Subscribers(Top.r))
    /\ stack' = Pop(stack)
    /\ ev' = [op |-> "roundEnd", c |-> Top.r.c, e |-> currentEffect, how |-> "-",
              ran |-> Top.r.ran, at |-> Top.r.at]
    /\ UNCHANGED <<value, version, effects, updateCount, made, fns, currentEffect,
                   thrown, log, script, hist, result, accepted, tripped, invoked,
                   basis, kept, failedSince>>

(* lines 141-147: the loop is over; finally, and return *)
RoundEnd ==
    /\ stack # <<>>
    /\ thrown = NoError
    /\ Top.f = NoCall
    /\ Top.r.i > Len(Subscribers(Top.r))
    /\ updateCount' = [updateCount EXCEPT ![Top.r.c] = ResetCount(@)]
    /\ stack' = Pop(stack)
    /\ ev' = [op |-> "roundEnd", c |-> Top.r.c, e |-> currentEffect, how |-> "-",
              ran |-> Top.r.ran, at |-> Top.r.at]
    /\ UNCHANGED <<value, version, effects, made, fns, currentEffect, thrown, log,
                   script, hist, result, accepted, tripped, invoked, basis, kept,
                   failedSince>>

(* q without effect e *)
Without(q, e) == LET Keep(x) == x # e IN SelectSeq(q, Keep)

(* a wrapper that undoes the subscriptions of a run that fails *)
UnwindEffectRollback ==
    /\ stack # <<>>
    /\ thrown # NoError
    /\ Top.f # NoCall
    /\ currentEffect' = RestoreEffect(Top.f.prev)
    /\ effects' = [c \in Cells |-> IF c \in Top.f.read THEN Without(effects[c], Top.f.e)
                                   ELSE effects[c]]
    /\ stack' = Left
    /\ kept' = IF Top.r = NoRound
               THEN kept \cup {<<Top.f.e, c>> : c \in Top.f.read}
               ELSE kept
    /\ ev' = Ev("unwind", "-", Top.f.e, "E")
    /\ UNCHANGED <<value, version, updateCount, made, fns, thrown, log,
                   script, hist, result, accepted, tripped, invoked, basis,
                   failedSince>>

(* an Error leaves the innermost call, whose finally block runs: line 256
   for the effect wrapper *)
UnwindEffect ==
    /\ stack # <<>>
    /\ thrown # NoError
    /\ Top.f # NoCall
    /\ currentEffect' = RestoreEffect(Top.f.prev)
    /\ stack' = Left
    /\ kept' = IF Top.r = NoRound
               THEN kept \cup {<<Top.f.e, c>> : c \in Top.f.read}
               ELSE kept
    /\ ev' = Ev("unwind", "-", Top.f.e, "E")
    /\ UNCHANGED <<value, version, effects, updateCount, made, fns, thrown, log,
                   script, hist, result, accepted, tripped, invoked, basis,
                   failedSince>>

(* a loop that catches the Error of a subscriber and goes on with the next *)
UnwindRoundResume ==
    /\ stack # <<>>
    /\ thrown # NoError
    /\ Top.f = NoCall
    /\ thrown' = NoError
    /\ ev' = [op |-> "unwind", c |-> Top.r.c, e |-> currentEffect, how |-> "R",
              ran |-> Top.r.ran, at |-> Top.r.at]
    /\ UNCHANGED <<value, version, effects, updateCount, made, fns, currentEffect,
                   stack, log, script, hist, result, accepted, tripped, invoked,
                   basis, kept, failedSince>>

(* and line 142 for the setter's loop *)
UnwindRound ==
    /\ stack # <<>>
    /\ thrown # NoError
    /\ Top.f = NoCall
    /\ updateCount' = [updateCount EXCEPT ![Top.r.c] = ResetCount(@)]
    /\ stack' = Pop(stack)
    /\ ev' = [op |-> "unwind", c |-> Top.r.c, e |-> currentEffect, how |-> "R",
              ran |-> Top.r.ran, at |-> Top.r.at]
    /\ UNCHANGED <<value, version, effects, made, fns, currentEffect, thrown, log,
                   script, hist, result, accepted, tripped, invoked, basis, kept,
                   failedSince>>

Next ==
    \/ CallState
    \/ CallDerived
    \/ CallEffect
    \/ CallSet
    \/ CallGet
    \/ CallMeta
    \/ CallResult
    \/ ExecGet
    \/ ExecMeta
    \/ ExecLocal
    \/ ExecLog
    \/ ExecSet
    \/ ExecBump
    \/ ExecState
    \/ ExecDerived
    \/ ExecEffect
    \/ ExecRaw
    \/ EffectReturn
    \/ RoundInvoke
    \/ RoundEnd
    \/ UnwindEffect
    \/ UnwindRound

Spec == Init /\ [][Next]_vars

----------------------------------------------------------------------------
(* Vocabulary of the properties *)

Idle == stack = <<>>

(* the script s has run its first n statements and control is at the top level *)
Ran(s, n) == script = s /\ Len(hist) = n /\ Idle

NoDuplicates(q) == \A i, j \in 1..Len(q) : q[i] = q[j] => i = j

Runs == 1..Len(stack)

Block(k) == stack[k].a

(* the activations on the stack *)
Acts == UNION {{Block(k)[j] : j \in 1..Len(Block(k))} : k \in Runs}

(* the effect of the innermost wrapper call among the activations up to the
   j-th of run k *)
RECURSIVE InnerAt(_, _)
InnerAt(k, j) ==
    IF k = 0 THEN Null
    ELSE IF j = 0 THEN (IF k = 1 THEN Null ELSE InnerAt(k - 1, Len(Block(k - 1))))
    ELSE IF Block(k)[j].f # NoCall THEN Block(k)[j].f.e
    ELSE InnerAt(k, j - 1)

Innermost(k) == IF k = 0 THEN Null ELSE InnerAt(k, Len(Block(k)))

(* the number of rounds of cell c in progress among the first k runs *)
RECURSIVE RoundsTo(_, _)
RoundsTo(c, k) ==
    IF k = 0 THEN 0
    ELSE stack[k].n * Cardinality({j \in 1..Len(Block(k)) : Block(k)[j].r.c = c})
         + RoundsTo(c, k - 1)

Rounds(c) == RoundsTo(c, Len(stack))

(* the step just taken is a write of a value other than the stored one *)
Propagating == ev.op = "set" /\ ev.c \in MutCells /\ ev.old # ev.v

----------------------------------------------------------------------------
(* C1: a write of the stored value to a mutable cell changes no cell's
   value, version, subscribers or counter, invokes no subscriber (no call
   is pushed) and raises nothing, at the top level and inside an effect. *)
C1_EqualWriteIsNoOp ==
    [][(ev'.op = "set" /\ ev'.c \in MutCells /\ ev'.v = value[ev'.c])
        => /\ UNCHANGED <<value, version, effects, updateCount, made, fns,
                          currentEffect, log>>
           /\ Depth(stack') = Depth(stack)
           /\ thrown' = NoError]_vars

(* an effect has written the stored value to a cell that has subscribers *)
C1_Witness ==
    /\ ev.op = "set"
    /\ ev.c \in MutCells
    /\ ev.v = ev.old
    /\ ev.e # Null
    /\ effects[ev.c] # <<>>

(* C2: a mutable cell's version is the number of writes made to it whose
   value differed from the stored one, at every moment: also while the
   round of such a write is running and after it has failed. *)
C2_VersionCountsAcceptedWrites ==
    \A c \in MutCells : version[c] = accepted[c]

(* a cell has been written past the guard and the failure has reached the top level *)
C2_Witness ==
    /\ Idle
    /\ thrown = "RunawayUpdate"
    /\ \E c \in MutCells : version[c] > UPDATE_COUNT_LIMIT /\ version[c] = accepted[c]

(* C3: no cell lists an effect twice, so no round's snapshot does and no
   round invokes an effect twice; Scenario A logs [0, 2]. *)
C3_OneMembershipPerEffect ==
    /\ \A c \in Cells : NoDuplicates(effects[c])
    /\ \A x \in Acts : NoDuplicates(x.r.effects) /\ NoDuplicates(x.r.ran)
    /\ ev.op = "roundEnd" => NoDuplicates(ev.ran)
    /\ Ran(ScriptSignal, 3) => log = << <<0>>, <<2>> >>

(* Scenario A has run: the effect read the cell twice in each of two runs *)
C3_Witness ==
    /\ Ran(ScriptSignal, 3)
    /\ effects["a"] = <<1>>
    /\ log = << <<0>>, <<2>> >>

(* C4: a round that completes has invoked exactly the effects subscribed
   at the moment of the write, once each, in subscription order; while it
   runs it has invoked a prefix of them. *)
C4_RoundRunsSubscribersAtWrite ==
    /\ \A x \in Acts :
          /\ Len(x.r.ran) <= Len(x.r.at)
          /\ x.r.ran = SubSeq(x.r.at, 1, Len(x.r.ran))
    /\ ev.op = "roundEnd" => ev.ran = ev.at

(* a round of two subscribers has completed, during which a third effect subscribed *)
C4_Witness ==
    /\ ev.op = "roundEnd"
    /\ Len(ev.at) >= 2
    /\ Len(effects[ev.c]) > Len(ev.at)
    /\ thrown = NoError

(* C5: the slot holds the effect of the innermost effectFn call on the
   stack, or Null when there is none; each call remembers the slot it
   found (in a repeated block, that of the last call of the block below);
   so the slot is Null whenever control is at the top level, and an
   effect's read subscribes that effect. *)
C5_SlotIsInnermostEffect ==
    /\ currentEffect = Innermost(Len(stack))
    /\ \A k \in Runs : \A j \in 1..Len(Block(k)) :
          Block(k)[j].f # NoCall =>
             /\ Block(k)[j].f.prev = InnerAt(k, j - 1)
             /\ (stack[k].n > 1 /\ j = 1) =>
                   Block(k)[j].f.prev = Block(k)[Len(Block(k))].f.e
    /\ Idle => currentEffect = Null
    /\ (ev.op = "get" /\ ev.e # Null) =>
                        /\ stack # <<>>
                        /\ Top.f # NoCall
                        /\ Top.f.e \in Range(effects[ev.c])

(* an effect has written b, another effect has been replayed inside that
   write and has returned, and the first effect now reads b and is
   subscribed to it *)
C5_Witness ==
    /\ ev.op = "get"
    /\ ev.c = "b"
    /\ fns[ev.e] = "echo"
    /\ currentEffect = ev.e
    /\ Len(effects["b"]) = 2
    /\ effects["b"][2] = ev.e
    /\ version["b"] >= 1
    /\ log # <<>>

(* C6: a write to a derived cell raises, whatever the value, and changes
   nothing: no cell, not the slot, and no call is pushed. *)
C6_DerivedWriteFails ==
    [][(ev'.op = "set" /\ ev'.c \in DerivedCells)
        => /\ thrown' = "DerivedWrite"
           /\ UNCHANGED <<value, version, effects, updateCount, made, fns,
                          currentEffect, log>>
           /\ Depth(stack') = Depth(stack)]_vars

(* a subscribed derived cell was written its own value *)
C6_Witness ==
    /\ ev.op = "set"
    /\ ev.c \in DerivedCells
    /\ ev.v = value[ev.c]
    /\ effects[ev.c] # <<>>
    /\ thrown = "DerivedWrite"

(* C7: state(), derived() and effect() called while the slot is non-empty
   raise and create nothing. *)
C7_FactoriesFailInsideEffect ==
    [][(ev'.op \in {"new", "derived", "effect"} /\ currentEffect # Null)
        => /\ thrown' \in {"SignalInEffect", "NestedEffect"}
           /\ UNCHANGED <<value, version, effects, updateCount, made, fns,
                          currentEffect, log>>]_vars

(* a factory call has failed in an effect that a write replayed *)
C7_Witness ==
    /\ ev.op \in {"new", "derived", "effect"}
    /\ ev.e # Null
    /\ thrown # NoError
    /\ \E x \in Acts : x.r # NoRound

(* C8 as stated: a propagating write fails exactly when the counter, after
   its increment, exceeds the limit. *)
C8_FailsWhenIncrementedCountExceedsLimit ==
    Propagating => (thrown = "RunawayUpdate" <=> updateCount[ev.c] > UPDATE_COUNT_LIMIT)

(* C8 amended: a propagating write fails exactly when the counter exceeded
   the limit before its increment (after it, exceeds limit + 1); a write
   that fails has limit + 1 rounds of its cell in progress around it. *)
C8_FailsWhenCountBeforeIncrementExceedsLimit ==
    /\ Propagating =>
          (thrown = "RunawayUpdate" <=> updateCount[ev.c] > UPDATE_COUNT_LIMIT + 1)
    /\ (Propagating /\ thrown = "RunawayUpdate") =>
          Rounds(ev.c) >= UPDATE_COUNT_LIMIT + 1

(* the write that fails: the counter stands at limit + 2 *)
C8_Witness ==
    /\ Propagating
    /\ thrown = "RunawayUpdate"
    /\ updateCount[ev.c] = UPDATE_COUNT_LIMIT + 2
    /\ Rounds(ev.c) = UPDATE_COUNT_LIMIT + 1

(* C9 as stated: once a write to a cell has failed with RunawayUpdate the
   counter stays above the limit after the failure has unwound. *)
C9_TripIsPermanent ==
    \A c \in tripped : Idle => updateCount[c] > UPDATE_COUNT_LIMIT

(* C9 amended: the failure leaves through the rounds in progress, whose
   finally blocks reset the counter: at the top level the counter of a
   cell that has tripped is 0, and a later top-level write of a different
   value to it does not fail: it starts a round with the counter at 1. *)
C9_TripIsUndoneByUnwinding ==
    /\ \A c \in tripped : Idle => updateCount[c] = 0
    /\ (Propagating /\ ev.e = Null /\ ev.c \in tripped) =>
          /\ thrown = NoError
          /\ updateCount[ev.c] = 1
          /\ Depth(stack) = 1
          /\ Top.r.c = ev.c
          /\ Top.f = NoCall

(* a later write to a cell that had tripped has replayed its subscriber and returned *)
C9_Witness ==
    /\ Idle
    /\ thrown = NoError
    /\ ev.op = "roundEnd"
    /\ ev.c \in tripped
    /\ Len(ev.ran) >= 1

(* C10: the recompute's assignment changes only the derived cell's value:
   no version, no counter, no subscriber list, no call; a derived cell's
   version and counter stay 0; Scenario B logs one line per write. *)
C10_RecomputeBypassesSetter ==
    /\ [][ev'.op = "raw"
            => /\ UNCHANGED <<version, effects, updateCount, currentEffect, log>>
               /\ Depth(stack') = Depth(stack)]_vars
    /\ [](\A d \in DerivedCells : version[d] = 0 /\ updateCount[d] = 0)
    /\ [](Ran(ScriptDerived, 6) => log = << <<0, 0, 0>>, <<1, 0, 1>>, <<1, 2, 3>> >>)

(* Scenario B has run *)
C10_Witness ==
    /\ Ran(ScriptDerived, 6)
    /\ effects["d"] = <<2>>
    /\ log = << <<0, 0, 0>>, <<1, 0, 1>>, <<1, 2, 3>> >>

----------------------------------------------------------------------------
(* Vocabulary of the claims about derived cells *)

(* the recompute effects: the effects that derived() created *)
Recomputes == {i \in 1..Len(fns) : fns[i] \in ComputeNames}

(* the place of effect e in the subscriber list q *)
Index(q, e) == CHOOSE i \in 1..Len(q) : q[i] = e

(* the inputs that the latest recompute read and that effect e has read *)
SharedInputs(e) ==
    {c \in MutCells : basis[c] # Undefined /\ e \in Range(effects[c])}

(* C11: when an effect created after the derived cell reads it, then for
   every input cell that the compute function and the effect have both
   read, the recompute effect precedes the effect in the input's subscriber
   list, and the derived value the effect observes was computed from the
   input's current value (the version the latest recompute read is the
   input's version). *)
C11_DependentNeverObservesStaleDerived ==
    \A r \in Recomputes :
        (ev.op = "get" /\ ev.c \in DerivedCells /\ ev.e > r) =>
            \A c \in SharedInputs(ev.e) :
                /\ r \in Range(effects[c])
                /\ Index(effects[c], r) < Index(effects[c], ev.e)
                /\ basis[c] = version[c]

----------------------------------------------------------------------------
(* C12: Scenario C, the cycle through three cells and three effects: the
   write c = 1 neither returns normally nor exhausts the call stack; no
   cell ever has more than limit + 1 rounds in progress; the write fails
   with RunawayUpdate, raised by c's own counter, and the slot is empty
   afterwards. *)
C12_CycleAcrossCellsFails ==
    /\ script = ScriptCycle =>
          /\ thrown \in {NoError, "RunawayUpdate"}
          /\ \A c \in MutCells : Rounds(c) <= UPDATE_COUNT_LIMIT + 1
          /\ Depth(stack) <= 1 + Cardinality(MutCells) * UPDATE_COUNT_LIMIT
    /\ Ran(ScriptCycle, 6) => thrown = NoError /\ currentEffect = Null
    /\ Ran(ScriptCycle, 7) =>
          /\ thrown = "RunawayUpdate"
          /\ tripped = {"c"}
          /\ currentEffect = Null

(* Scenario C has run: c was written limit + 2 times and its counter is
   back at 0 *)
C12_Witness ==
    /\ Ran(ScriptCycle, 7)
    /\ thrown = "RunawayUpdate"
    /\ version["c"] = UPDATE_COUNT_LIMIT + 2
    /\ updateCount["c"] = 0
    /\ currentEffect = Null

----------------------------------------------------------------------------
(* the statement the top level executed last *)
LastOp == IF hist = <<>> THEN "-" ELSE hist[Len(hist)][1]

(* the compute functions that read mutable cells only and construct nothing *)
PureComputes == {"sum", "bar", "dbl", "cond"}

(* the derived cell holds what its compute function yields now *)
DerivedIsCurrent ==
    \A r \in Recomputes : fns[r] \in PureComputes => value["d"] = Compute(fns[r])

(* control is back at the top level after derived() or after a write, and
   the statement has not failed *)
Completed == Idle /\ thrown = NoError /\ LastOp \in {"derived", "set"}

(* C13 as stated: after its construction and after every top-level write
   that completes without failure, the derived cell holds its compute
   function's value of the cells' current values. *)
C13_DerivedIsCurrentAfterEveryCompletedWrite ==
    Completed => DerivedIsCurrent

(* C13 amended: the same, provided no statement has failed since the
   derived cell was constructed (a failure aborts the rounds in progress,
   and the recompute may not have run). *)
C13_DerivedIsCurrentWhileNothingHasFailed ==
    (Completed /\ ~failedSince) => DerivedIsCurrent

(* a compute function that reads b only when a is set has followed a write
   to b *)
C13_Witness ==
    /\ Ran(ScriptCond, 6)
    /\ thrown = NoError
    /\ ~failedSince
    /\ value["b"] = 1
    /\ value["d"] = 1

----------------------------------------------------------------------------
(* effect() has just returned to the top level *)
FactoryReturned == ev.op = "return" /\ Idle /\ LastOp = "effect"

(* C14 as stated: when effect() returns to the top level the body has been
   invoked exactly once, the caller holds the result of that invocation,
   and the effect subscribes every cell the invocation read. *)
C14_BodyRunsExactlyOnceBeforeFactoryReturns ==
    FactoryReturned =>
        /\ invoked[ev.e] = 1
        /\ result = ev.res
        /\ \A c \in ev.read : ev.e \in Range(effects[c])

(* C14 amended: effect() itself calls the body once, at the bottom of the
   stack, with the slot set to the effect while the body runs; every other
   call before it returns is a replay by a round that the body's own writes
   started.  When it returns the caller holds the result of the first call
   and the effect subscribes every cell that call read.  Nothing else
   changes the caller's result (the results of replays are dropped), and
   only the caller invokes it: Scenario "effect return result" logs
   [0, 1, 2] and destroy() empties the log. *)
C14_FactoryCallsBodyOnceAndReturnsItsResult ==
    /\ [](FactoryReturned =>
            /\ invoked[ev.e] >= 1
            /\ result = ev.res
            /\ currentEffect = Null
            /\ \A c \in ev.read : ev.e \in Range(effects[c]))
    /\ [](\A k \in Runs : \A j \in 1..Len(Block(k)) :
            Block(k)[j].r = NoRound => k = 1 /\ j = 1 /\ stack[k].n = 1)
    /\ []((stack # <<>> /\ LastOp = "effect") =>
            /\ Block(1)[1].r = NoRound
            /\ Block(1)[1].f.e = Len(fns))
    /\ []((Depth(stack) = 1 /\ Top.r = NoRound /\ thrown = NoError) =>
            currentEffect = Top.f.e)
    /\ [][result' # result =>
            (ev'.op = "return" /\ stack' = <<>> /\ LastOp' = "effect")]_vars
    /\ [][(log # <<>> /\ log' = <<>>) => ev'.op = "call"]_vars
    /\ [](Ran(ScriptReturn, 4) =>
            log = << <<0>>, <<1>>, <<2>> >> /\ result = <<"clear", 0>>)
    /\ [](Ran(ScriptReturn, 5) => log = <<>>)

(* the effect of test "effect return result" has run three times and the
   caller holds the function its first run returned *)
C14_Witness ==
    /\ Ran(ScriptReturn, 4)
    /\ result = <<"clear", 0>>
    /\ invoked = <<3>>
    /\ log = << <<0>>, <<1>>, <<2>> >>
    /\ effects["a"] = <<1>>

----------------------------------------------------------------------------
(* what is left to unwind: two steps per activation, one if its call has
   already left *)
Unwinding(stk) ==
    IF stk = <<>> THEN 0
    ELSE 2 * Depth(stk)
         - (IF stk[Len(stk)].a[Len(stk[Len(stk)].a)].f = NoCall THEN 1 ELSE 0)

(* C15: while an Error propagates, every step leaves one call (the rest of
   its round is not run: no effect is invoked, nothing is logged), keeps
   the Error, the values, the versions and the subscriptions; a round left
   this way has its counter reset to 0 and has invoked only a prefix of its
   snapshot; the Error reaches the top level. *)
C15_FailingSubscriberAbortsRound ==
    /\ [][(thrown # NoError /\ stack # <<>>) =>
            /\ ev'.op = "unwind"
            /\ thrown' = thrown
            /\ Unwinding(stack') < Unwinding(stack)
            /\ UNCHANGED <<value, version, effects, invoked, log, made, fns>>]_vars
    /\ []((ev.op = "unwind" /\ ev.how = "R") =>
            /\ updateCount[ev.c] = 0
            /\ thrown # NoError
            /\ Len(ev.ran) <= Len(ev.at)
            /\ ev.ran = SubSeq(ev.at, 1, Len(ev.ran)))
    /\ []((Idle /\ ev.op = "unwind") => thrown # NoError)

(* a top-level write has failed in its first subscriber: the second was not
   invoked, and the cell keeps the new value *)
C15_Witness ==
    /\ Idle
    /\ ev.op = "unwind"
    /\ ev.how = "R"
    /\ Len(ev.ran) < Len(ev.at)
    /\ thrown = "SignalInEffect"
    /\ value[ev.c] = hist[Len(hist)][3]
    /\ version[ev.c] >= 1

----------------------------------------------------------------------------
(* C16: every step keeps every subscriber list as a prefix of the new one;
   an effect whose first run failed subscribes the cells that run read, is
   in the snapshot of every later accepted write to them, and a round of
   theirs that completes has invoked it. *)
C16_SubscribersOnlyGrow ==
    /\ [][\A c \in made :
            /\ Len(effects'[c]) >= Len(effects[c])
            /\ SubSeq(effects'[c], 1, Len(effects[c])) = effects[c]]_vars
    /\ [](\A p \in kept : p[1] \in Range(effects[p[2]]))
    /\ []((Propagating /\ thrown = NoError) =>
            \A p \in kept : p[2] = ev.c => p[1] \in Range(Top.r.effects))
    /\ [](ev.op = "roundEnd" =>
            \A p \in kept : p[2] = ev.c => p[1] \in Range(ev.ran))

(* an effect whose first run failed with RunawayUpdate is replayed by a
   later write to a cell it had read *)
C16_Witness ==
    /\ ev.op = "invoke"
    /\ <<ev.e, ev.c>> \in kept
    /\ fns[ev.e] = "spin"
    /\ "a" \in tripped

----------------------------------------------------------------------------
(* C17: a round that completes leaves its cell's counter at 0; the counter
   of a cell is 0 whenever no round of the cell is in progress, so at the
   top level every counter is 0; a top-level write of a new value finds
   the counter at 0, raises it to 1 and does not fail in the guard, however
   many writes to the cell came before. *)
C17_CounterIsZeroBetweenWrites ==
    /\ ev.op = "roundEnd" => updateCount[ev.c] = 0
    /\ \A c \in MutCells : Rounds(c) = 0 => updateCount[c] = 0
    /\ Idle => \A c \in Cells : updateCount[c] = 0
    /\ (Propagating /\ ev.e = Null) =>
          /\ thrown = NoError
          /\ updateCount[ev.c] = 1

(* the second of two top-level writes to a cell has replayed the cell's
   subscriber and returned *)
C17_Witness ==
    /\ Idle
    /\ ev.op = "roundEnd"
    /\ thrown = NoError
    /\ tripped = {}
    /\ version[ev.c] >= 2
    /\ Len(ev.ran) >= 1
    /\ updateCount[ev.c] = 0

----------------------------------------------------------------------------
(* C18: while rounds of a cell are in progress its counter is the number
   of those rounds; no cell has more than limit + 1 rounds in progress;
   no statement ends by exhausting the call stack. *)
C18_CounterCountsRoundsInProgress ==
    /\ \A c \in MutCells : Rounds(c) > 0 => updateCount[c] = Rounds(c)
    /\ \A c \in MutCells : Rounds(c) <= UPDATE_COUNT_LIMIT + 1
    /\ thrown # "RangeError"

----------------------------------------------------------------------------
(* C19: the write that fails with RunawayUpdate has stored the new value
   and incremented the version, and has invoked nobody: no call is pushed,
   the slot, the subscribers and the log are as before; while the failure
   unwinds, no value or version changes and no effect is invoked. *)
C19_RunawayWriteIsKeptAndRunsNoSubscriber ==
    /\ [][(ev'.op = "set" /\ ev'.how = "runaway") =>
            /\ thrown' = "RunawayUpdate"
            /\ value[ev'.c] # ev'.v
            /\ value'[ev'.c] = ev'.v
            /\ version'[ev'.c] = version[ev'.c] + 1
            /\ Depth(stack') = Depth(stack)
            /\ UNCHANGED <<invoked, currentEffect, effects, log>>]_vars
    /\ [][(thrown = "RunawayUpdate" /\ stack # <<>>) =>
            UNCHANGED <<value, version, invoked>>]_vars
    /\ []((Propagating /\ thrown = "RunawayUpdate") => value[ev.c] = ev.v)

(* a write to a cell that has a subscriber has failed with RunawayUpdate *)
C19_Witness ==
    /\ Propagating
    /\ thrown = "RunawayUpdate"
    /\ effects[ev.c] # <<>>
    /\ value[ev.c] = ev.v
    /\ version[ev.c] = UPDATE_COUNT_LIMIT + 2

----------------------------------------------------------------------------
(* C20: a read of a cell's value changes no value, version or counter, not
   the slot, and invokes nobody; of the subscriber lists it changes at
   most that of the cell read, by appending the effect in the slot when
   there is one and it is not yet in the list.  A read of meta changes
   nothing, inside an effect too. *)
C20_ObservingNeverPropagates ==
    /\ [][ev'.op = "get" =>
            /\ UNCHANGED <<value, version, updateCount, currentEffect, invoked, log,
                           made, fns>>
            /\ Depth(stack') = Depth(stack)
            /\ \A c \in Cells :
                  effects'[c] =
                     IF c = ev'.c /\ currentEffect # Null
                                 /\ \A i \in 1..Len(effects[c]) : effects[c][i] # currentEffect
                     THEN effects[c] \o <<currentEffect>>
                     ELSE effects[c]]_vars
    /\ [][ev'.op = "meta" =>
            /\ UNCHANGED <<value, version, effects, updateCount, currentEffect,
                           invoked, log, made, fns>>
            /\ Depth(stack') = Depth(stack)]_vars

(* an effect replayed through another cell reads a's meta again and is
   still no subscriber of a *)
C20_Witness ==
    /\ ev.op = "meta"
    /\ ev.e # Null
    /\ invoked[ev.e] = 2
    /\ effects[ev.c] = <<>>
    /\ version[ev.c] = 1

============================================================================
